---- MODULE Spec2Model ----
(***************************************************************************)
(* The incremental derivation engine of data_augmentation.py               *)
(* (AdvancedDataAugmentator) together with the source listing of           *)
(* data_preparation.py (BerserkCardDataset).                               *)
(*                                                                         *)
(* Every command line invocation (main) is a fresh process: it loads the   *)
(* State Store from augmentation_state.json, works, and saves it again.    *)
(* The model's state is therefore what is on disk: the source directory,   *)
(* the output namespace, the state file and the registry CSV, plus         *)
(* history variables that remember what the last invocation did.           *)
(*                                                                         *)
(* Abstractions:                                                           *)
(*  - a file name is its stem split on "_" plus its extension, so that     *)
(*    str.split('_') and '_'.join are exact; the extension "" is a name    *)
(*    without a dot and "." a name that ends in a bare dot;                *)
(*  - the bytes of a source are a version number, its md5 digest is that   *)
(*    number (distinct versions have distinct digests) and the digest of   *)
(*    an unreadable file, "", is 0;                                        *)
(*  - pixel content is the provenance (source, version, transform kind);   *)
(*  - timestamps (created_at, last_update) are left out.                   *)
(***************************************************************************)
EXTENDS Integers, Sequences, FiniteSets, TLC

VARIABLES
    universe,   \* the source paths this behaviour may ever hold, in os.listdir order
    src,        \* cards_dir: source path -> 0 (absent) or the version of its bytes
    stateFile,  \* augmentation_state.json
    outFiles,   \* image files under augmented_dir: output path -> content
    outDirs,    \* directories under augmented_dir
    csv,        \* augmented_dataset.csv
    lastOp,     \* history: the kind of the last step
    hist,       \* history: what the last derivation run did
    since,      \* history: what happened to the sources since the last run
    ops,        \* number of steps taken
    pc,         \* position of the running process (only SpecCrash leaves "idle")
    pending,    \* the in-memory result of a run that has not finished saving
    config,     \* the AugmentationConfig every invocation is started with
    logFile,    \* augmented_dir/augmentation.log exists
    parsed      \* the last file name given to the two identity parsers

vars == <<universe, src, stateFile, outFiles, outDirs, csv, lastOp, hist, since,
          ops, pc, pending, config, logFile, parsed>>

-----------------------------------------------------------------------------
(* Bounds *)

MaxOps == 5          \* steps of a behaviour of Spec
MaxFaultOps == 3     \* steps of a behaviour of SpecFault
MaxCrashOps == 7     \* steps of a behaviour of SpecCrash
MaxVer == 2          \* versions of a source's bytes
MaxNumAug == 2       \* largest num_augmentations of a run
MaxConfigOps == 3    \* steps of a behaviour of SpecConfig
MaxConfigNumAug == 3 \* largest num_augmentations of a run of SpecConfig
MaxDegradedOps == 3  \* steps of a behaviour of SpecDegraded
MaxParseOps == 1     \* steps of a behaviour of SpecParse
MaxSegs == 4         \* segments of the stem of a parsed file name

-----------------------------------------------------------------------------
(* File names and source paths *)

FileName(stem, ext) == [stem |-> stem, ext |-> ext]

SrcPath(dir, stem, ext) == [dir |-> dir, name |-> FileName(stem, ext)]

ImageExts == {"webp", "jpg", "jpeg", "png"}

\* The source directories the model explores: each is a sequence of source
\* paths in listing order.  dir = "" is the root of cards_dir.
Scenarios ==
    { << SrcPath("", <<"s1", "001">>, "webp"), SrcPath("", <<"s1", "002", "pf">>, "webp") >>,
      << SrcPath("a", <<"s1", "001">>, "webp"), SrcPath("b", <<"s1", "001">>, "webp") >>,
      << SrcPath("a", <<"s1", "001">>, "webp"), SrcPath("a", <<"s1", "001", "aug", "1">>, "webp") >>,
      << SrcPath("a", <<"s1", "001">>, "webp"), SrcPath("a", <<"s1", "001">>, "jpg") >>,
      << SrcPath("", <<"s1", "aug", "001">>, "webp"), SrcPath("", <<"s2", "">>, "webp") >>,
      << SrcPath("", <<"s1", "001", "normal">>, "webp"), SrcPath("", <<"s1", "002", "pf">>, "webp") >> }

Range(seq) == { seq[i] : i \in 1..Len(seq) }

Sources == Range(universe)

-----------------------------------------------------------------------------
(* data_preparation.py: the Identity Parser and the source listing *)

NoCard == [ok |-> FALSE, set_name |-> "", card_number |-> "", variant |-> ""]

\* The segments file names are built from, and a segment followed by a dot.
Segments == {"", "s1", "042", "pf", "aug", "1"}

DotSeg(seg) ==
    CASE seg = "" -> "."
      [] seg = "s1" -> "s1."
      [] seg = "042" -> "042."
      [] seg = "pf" -> "pf."
      [] seg = "aug" -> "aug."
      [] seg = "1" -> "1."
      [] OTHER -> seg

\* os.path.splitext(filename)[0].split('_'): the last dot and what follows it
\* are cut off, a bare trailing dot included.
SplitextStem(name) == name.stem

\* Path(filename).stem.split('_'): a bare trailing dot is no suffix and stays
\* in the stem.
PathStem(name) ==
    IF name.ext = "."
    THEN [i \in 1..Len(name.stem) |->
             IF i = Len(name.stem) THEN DotSeg(name.stem[i]) ELSE name.stem[i]]
    ELSE name.stem

\* The parts of a stem once a trailing ("aug", <ordinal>) pair is stripped.
StripAugSuffix(parts) ==
    IF Len(parts) >= 4 /\ parts[Len(parts) - 1] = "aug"
    THEN SubSeq(parts, 1, Len(parts) - 2)
    ELSE parts

\* BerserkCardDataset.parse_filename: None (NoCard) below 2 segments.
parse_filename(name) ==
    IF Len(SplitextStem(name)) < 2
    THEN NoCard
    ELSE LET parts == StripAugSuffix(SplitextStem(name))
         IN  [ok |-> TRUE,
              set_name |-> parts[1],
              card_number |-> parts[2],
              variant |-> IF Len(parts) > 2 THEN parts[3] ELSE "normal"]

\* The sub-directories of cards_dir.  A directory of the scenario exists
\* throughout the behaviour, also while it holds no file.
SubDirs == { s.dir : s \in Sources } \ {""}

\* BerserkCardDataset.load_dataset: with sub-directories only their files are
\* listed, else the files of the root; a file is listed when it has an image
\* extension and its name parses.  The result keeps the listing order.
Listed(s) ==
    /\ src[s] > 0
    /\ IF SubDirs # {} THEN s.dir \in SubDirs ELSE s.dir = ""
    /\ s.name.ext \in ImageExts
    /\ parse_filename(s.name).ok

load_dataset == SelectSeq(universe, Listed)

Listing == Range(load_dataset)

\* One row of the DataFrame load_dataset returns.
DatasetRow(s) ==
    LET c == parse_filename(s.name)
    IN  [filename |-> s.name, set_name |-> c.set_name, card_number |-> c.card_number,
         variant |-> c.variant, filepath |-> s]

-----------------------------------------------------------------------------
(* data_augmentation.py: pure helpers *)

\* AugmentationConfig.__post_init__: the default catalog, with albumentations
\* in use and without.
BasicCatalog == <<"rotate", "brightness", "contrast", "saturation", "combined">>

AlbumentationsCatalog ==
    <<"rotate", "brightness_contrast", "hue_saturation", "noise", "blur", "elastic",
      "optical_distortion", "combined">>

\* albumentations stands for ALBUMENTATIONS_AVAILABLE and use_albumentations.
DefaultConfig(albumentations) ==
    [augmentation_types |-> IF albumentations THEN AlbumentationsCatalog ELSE BasicCatalog,
     albumentations |-> albumentations]

\* A configuration file may name any catalog (load_config_from_file).
Configs ==
    { DefaultConfig(FALSE), DefaultConfig(TRUE),
      [augmentation_types |-> <<"rotate", "brightness">>, albumentations |-> FALSE],
      [augmentation_types |-> <<"rotate", "blur">>, albumentations |-> FALSE] }

augmentation_types == config.augmentation_types

\* setup_augmentations: the kinds registered in self.augmentations.
augmentations ==
    IF config.albumentations THEN Range(AlbumentationsCatalog) ELSE Range(BasicCatalog)

\* apply_augmentation: the transform applied to the image; an unregistered
\* kind returns the image as it came ("none").
apply_augmentation(aug_type) == IF aug_type \in augmentations THEN aug_type ELSE "none"

\* The kind of the slot after aug_idx: a mapping that is off by one.
AugTypeShifted(aug_idx) ==
    augmentation_types[((aug_idx + 1) % Len(augmentation_types)) + 1]

\* The transform kind of slot aug_idx (0-based), cyclic over the catalog.
AugType(aug_idx) == augmentation_types[(aug_idx % Len(augmentation_types)) + 1]

\* aug_key = f"{aug_type}_{aug_idx}"
AugKey(aug_type, aug_idx) == <<aug_type, aug_idx>>

\* get_file_hash: the digest of the bytes, "" (0) when the file cannot be read.
get_file_hash(s, hashFails) == IF hashFails \/ src[s] = 0 THEN 0 ELSE src[s]

\* parse_card_info: a row that carries set_name, card_number and variant is
\* trusted verbatim; otherwise the name is parsed (suffix stripped first).
parse_card_info(name, row, hasRow) ==
    IF hasRow
    THEN [ok |-> TRUE, set_name |-> row.set_name, card_number |-> row.card_number,
          variant |-> row.variant]
    ELSE LET parts == StripAugSuffix(PathStem(name))
         IN  IF Len(parts) < 2
             THEN NoCard
             ELSE [ok |-> TRUE,
                   set_name |-> parts[1],
                   card_number |-> parts[2],
                   variant |-> IF Len(parts) > 2 THEN parts[3] ELSE "normal"]

\* get_augmented_structure_path: root/set_name/variant/filename.  The defaults
\* aug_type=None and aug_idx=None are "" and -1; with both given the name is
\* {stem}_aug_{aug_idx + 1}{ext}, else the source's own filename.
get_augmented_structure_path(card_info, filename, aug_type, aug_idx) ==
    [set |-> card_info.set_name,
     variant |-> card_info.variant,
     name |-> IF aug_type # "" /\ aug_idx # -1
              THEN FileName(PathStem(filename) \o <<"aug", ToString(aug_idx + 1)>>,
                            IF filename.ext \in {"", "."} THEN "webp" ELSE filename.ext)
              ELSE filename]

\* The directories mkdir(parents=True) makes for an output path.
ParentDirs(path) == { <<path.set>>, <<path.set, path.variant>> }

\* The output paths of a source, as the engine computes them from its row.
CardInfoOf(s) == parse_card_info(s.name, DatasetRow(s), TRUE)
OrigPathOf(s) == get_augmented_structure_path(CardInfoOf(s), s.name, "", -1)
AugPathOf(s, aug_idx) ==
    get_augmented_structure_path(CardInfoOf(s), s.name, AugType(aug_idx), aug_idx)

\* A lookup that does not compare the digests.
is_file_processed_any_hash(pf, s, current_hash, aug_type, aug_idx) ==
    /\ s \in DOMAIN pf
    /\ AugKey(aug_type, aug_idx) \in DOMAIN pf[s].augmentations

\* is_file_processed, on the processed_files map pf and the current digest.
is_file_processed(pf, s, current_hash, aug_type, aug_idx) ==
    /\ s \in DOMAIN pf
    /\ pf[s].hash = current_hash
    /\ AugKey(aug_type, aug_idx) \in DOMAIN pf[s].augmentations

\* A marking that keeps no earlier key of the entry.
mark_file_processed_reset(pf, s, current_hash, aug_type, aug_idx, output_path) ==
    [x \in DOMAIN pf \cup {s} |->
        IF x = s
        THEN [hash |-> current_hash,
              augmentations |-> [k \in {AugKey(aug_type, aug_idx)} |-> output_path]]
        ELSE pf[x]]

\* mark_file_processed: the digest is stored only when the entry is created.
mark_file_processed(pf, s, current_hash, aug_type, aug_idx, output_path) ==
    LET entry == IF s \in DOMAIN pf
                 THEN pf[s]
                 ELSE [hash |-> current_hash, augmentations |-> <<>>]
        key == AugKey(aug_type, aug_idx)
        augs == [k \in DOMAIN entry.augmentations \cup {key} |->
                    IF k = key THEN output_path ELSE entry.augmentations[k]]
    IN  [x \in DOMAIN pf \cup {s} |->
            IF x = s THEN [hash |-> entry.hash, augmentations |-> augs] ELSE pf[x]]

-----------------------------------------------------------------------------
(* data_augmentation.py: the derivation run *)

\* What can go wrong for one source in one run: cv2.imread returns None
\* ("read"), saving the unmodified copy raises ("orig"), the transform or the
\* save of slot idx raises ("slot"), or the file cannot be read for hashing
\* ("hash").  A run meets at most one of them.
NoFault == [kind |-> "none", who |-> universe[1], idx |-> 0]

Faults(n) ==
    {NoFault}
    \cup { [kind |-> k, who |-> s, idx |-> 0] : k \in {"read", "orig", "hash"}, s \in Sources }
    \cup { [kind |-> "slot", who |-> s, idx |-> i] : s \in Sources, i \in 0..(n - 1) }

Hits(fault, kind, s, idx) ==
    fault.kind = kind /\ fault.who = s /\ fault.idx = idx

\* A row of augmented_records (full_path is augmented_dir / filepath).
Record(path, s, card_info, aug_type) ==
    [filename |-> path.name, filepath |-> path, original_filename |-> s.name,
     augmentation_type |-> aug_type, set_name |-> card_info.set_name,
     card_number |-> card_info.card_number, variant |-> card_info.variant]

\* The content of an output file: which source bytes it was made from.
\* kind is the role of the file ("original" or the slot's kind), pixels the
\* transform its image went through.
Content(s, kind, pixels) == [from |-> s, ver |-> src[s], kind |-> kind, pixels |-> pixels]

WriteFile(out, path, content) ==
    [p \in DOMAIN out \cup {path} |-> IF p = path THEN content ELSE out[p]]

\* A step the run took for source s: the unmodified copy was saved ("copy")
\* or found at its path ("present"), slot idx was passed over ("skip"), its
\* file was saved ("write"), it was marked in the state ("mark", with the
\* path that was stored), or an exception ended the source ("fail").
Event(kind, s, idx, path) == [kind |-> kind, who |-> s, idx |-> idx, path |-> path]

NoPath == [set |-> "", variant |-> "", name |-> FileName(<<>>, "")]

\* The state of a run: the in-memory processed_files, the output namespace,
\* augmented_records, what became of each source and slot, and the steps of
\* the run in their order.
\* nokey: the loaded state has no 'processed_files' entry.
StartRun(pf, nokey) ==
    [pf |-> pf, nokey |-> nokey, out |-> outFiles, dirs |-> outDirs, recs |-> <<>>,
     produced |-> {}, skipped |-> {}, failedSlots |-> {}, failedSrc |-> {},
     wroteOrig |-> {}, events |-> <<>>]

\* A slot body that records and marks the slot without saving its file.
ProduceSlotUnsaved(acc, s, card_info, aug_idx, hashFails) ==
    LET aug_type == AugType(aug_idx)
        aug_output_path == get_augmented_structure_path(card_info, s.name, aug_type, aug_idx)
    IN  [acc EXCEPT
            !.recs = Append(acc.recs, Record(aug_output_path, s, card_info, aug_type)),
            !.pf = mark_file_processed(acc.pf, s, get_file_hash(s, hashFails), aug_type,
                                     aug_idx, aug_output_path),
            !.produced = acc.produced \cup {<<s, aug_idx>>},
            !.events = Append(acc.events, Event("mark", s, aug_idx, aug_output_path))]

\* A slot body that saves and marks but appends nothing to augmented_records.
ProduceSlotNoRecord(acc, s, card_info, aug_idx, hashFails) ==
    LET aug_type == AugType(aug_idx)
        aug_output_path == get_augmented_structure_path(card_info, s.name, aug_type, aug_idx)
    IN  [acc EXCEPT
            !.out = WriteFile(acc.out, aug_output_path, Content(s, aug_type, apply_augmentation(aug_type))),
            !.dirs = acc.dirs \cup ParentDirs(aug_output_path),
            !.pf = mark_file_processed(acc.pf, s, get_file_hash(s, hashFails), aug_type,
                                     aug_idx, aug_output_path),
            !.produced = acc.produced \cup {<<s, aug_idx>>},
            !.events = acc.events \o << Event("write", s, aug_idx, aug_output_path),
                                       Event("mark", s, aug_idx, aug_output_path) >>]

\* Step 4b for one slot: transform, save, record, mark.
ProduceSlot(acc, s, card_info, aug_idx, hashFails) ==
    LET aug_type == AugType(aug_idx)
        aug_output_path == get_augmented_structure_path(card_info, s.name, aug_type, aug_idx)
    IN  [acc EXCEPT
            !.out = WriteFile(acc.out, aug_output_path, Content(s, aug_type, apply_augmentation(aug_type))),
            !.dirs = acc.dirs \cup ParentDirs(aug_output_path),
            !.recs = Append(acc.recs, Record(aug_output_path, s, card_info, aug_type)),
            !.pf = mark_file_processed(acc.pf, s, get_file_hash(s, hashFails), aug_type,
                                     aug_idx, aug_output_path),
            !.produced = acc.produced \cup {<<s, aug_idx>>},
            !.events = acc.events \o << Event("write", s, aug_idx, aug_output_path),
                                       Event("mark", s, aug_idx, aug_output_path) >>]

\* The loop over range(num_augmentations) from slot aug_idx on.  An exception
\* in a slot leaves the loop: the except clause around the whole source
\* catches it and the run goes on with the next source.  On a state without
\* 'processed_files' the lookup self.state['processed_files'] raises KeyError:
\* in is_file_processed before anything is written (incremental mode), in
\* mark_file_processed after the file is saved and recorded (full mode).
RECURSIVE ProcessSlots(_, _, _, _, _, _, _)
ProcessSlots(acc, s, card_info, mode, n, fault, aug_idx) ==
    IF aug_idx >= n
    THEN acc
    ELSE IF mode = "incremental" /\ acc.nokey
         THEN [acc EXCEPT !.failedSrc = acc.failedSrc \cup {s},
                          !.events = Append(acc.events, Event("fail", s, aug_idx, NoPath))]
    ELSE IF /\ mode = "incremental"
            /\ is_file_processed(acc.pf, s, get_file_hash(s, Hits(fault, "hash", s, 0)),
                               AugType(aug_idx), aug_idx)
         THEN ProcessSlots([acc EXCEPT
                                !.skipped = acc.skipped \cup {<<s, aug_idx>>},
                                !.events = Append(acc.events, Event("skip", s, aug_idx, NoPath))],
                           s, card_info, mode, n, fault, aug_idx + 1)
         ELSE IF Hits(fault, "slot", s, aug_idx)
              THEN [acc EXCEPT !.failedSlots = acc.failedSlots \cup {<<s, aug_idx>>},
                               !.events = Append(acc.events, Event("fail", s, aug_idx, NoPath))]
         ELSE IF acc.nokey
              THEN LET saved == ProduceSlot(acc, s, card_info, aug_idx, FALSE)
                   IN  [acc EXCEPT !.out = saved.out, !.dirs = saved.dirs,
                                   !.recs = saved.recs,
                                   !.failedSlots = acc.failedSlots \cup {<<s, aug_idx>>},
                                   !.events = acc.events \o
                                       << Event("write", s, aug_idx,
                                                AugPathOf(s, aug_idx)),
                                          Event("fail", s, aug_idx, NoPath) >>]
              ELSE ProcessSlots(ProduceSlot(acc, s, card_info, aug_idx,
                                            Hits(fault, "hash", s, 0)),
                                s, card_info, mode, n, fault, aug_idx + 1)

\* A source body that runs the slots first and saves the unmodified copy last.
ProcessSourceCopyLast(acc, s, mode, n, fault) ==
    LET row == DatasetRow(s)
        card_info == parse_card_info(row.filename, row, TRUE)
        original_output_path == get_augmented_structure_path(card_info, row.filename, "", -1)
        made == [acc EXCEPT !.dirs = acc.dirs \cup ParentDirs(original_output_path)]
        slots == ProcessSlots(made, s, card_info, mode, n, fault, 0)
    IN  IF src[s] = 0 \/ ~card_info.ok
        THEN acc
        ELSE [slots EXCEPT
                 !.out = WriteFile(slots.out, original_output_path, Content(s, "original", "none")),
                 !.recs = Append(slots.recs,
                                 Record(original_output_path, s, card_info, "original")),
                 !.wroteOrig = slots.wroteOrig \cup {s},
                 !.events = Append(slots.events,
                                   Event("copy", s, -1, original_output_path))]

\* The body of the loop over the rows of the listing, for one source.
ProcessSource(acc, s, mode, n, fault) ==
    LET row == DatasetRow(s)
        card_info == parse_card_info(row.filename, row, TRUE)
        original_output_path == get_augmented_structure_path(card_info, row.filename, "", -1)
        made == [acc EXCEPT !.dirs = acc.dirs \cup ParentDirs(original_output_path)]
        copied == [made EXCEPT
                      !.out = WriteFile(made.out, original_output_path, Content(s, "original", "none")),
                      !.recs = Append(made.recs,
                                      Record(original_output_path, s, card_info, "original")),
                      !.wroteOrig = made.wroteOrig \cup {s},
                      !.events = Append(made.events,
                                        Event("copy", s, -1, original_output_path))]
        found == [made EXCEPT
                     !.events = Append(made.events,
                                       Event("present", s, -1, original_output_path))]
    IN  IF src[s] = 0 \/ ~card_info.ok
        THEN acc
        ELSE IF Hits(fault, "read", s, 0)
        THEN [acc EXCEPT !.failedSrc = acc.failedSrc \cup {s},
                         !.events = Append(acc.events, Event("fail", s, -1, NoPath))]
        ELSE IF original_output_path \notin DOMAIN made.out \/ mode = "full"
        THEN IF Hits(fault, "orig", s, 0)
             THEN [made EXCEPT !.failedSrc = made.failedSrc \cup {s},
                               !.events = Append(made.events, Event("fail", s, -1, NoPath))]
             ELSE ProcessSlots(copied, s, card_info, mode, n, fault, 0)
        ELSE ProcessSlots(found, s, card_info, mode, n, fault, 0)

\* A loop over the listing that ends at the first source that fails.
RECURSIVE ProcessSourcesAbort(_, _, _, _, _, _)
ProcessSourcesAbort(acc, listing, mode, n, fault, k) ==
    IF k > Len(listing)
    THEN acc
    ELSE LET next == ProcessSource(acc, listing[k], mode, n, fault)
         IN  IF next.failedSrc # acc.failedSrc \/ next.failedSlots # acc.failedSlots
             THEN next
             ELSE ProcessSourcesAbort(next, listing, mode, n, fault, k + 1)

\* The loop over the listing, from its k-th row on.
RECURSIVE ProcessSources(_, _, _, _, _, _)
ProcessSources(acc, listing, mode, n, fault, k) ==
    IF k > Len(listing)
    THEN acc
    ELSE ProcessSources(ProcessSource(acc, listing[k], mode, n, fault),
                        listing, mode, n, fault, k + 1)

-----------------------------------------------------------------------------
(* The State Store file and the registry file *)

NoStateFile == [kind |-> "missing", processed_files |-> <<>>, config |-> 0]

\* load_state: the file's content when it exists and parses, else a fresh
\* state.  The kinds of a state file: "ok", "missing", "partial" (truncated or
\* otherwise not JSON) and "nokey" (a JSON object without 'processed_files',
\* which load_state returns as it is).
load_state(file) == IF file.kind = "ok" THEN file.processed_files ELSE <<>>

LacksKey(file) == file.kind = "nokey"

\* What save_state leaves on disk once json.dump has finished.
save_state(pf, n) == [kind |-> "ok", processed_files |-> pf, config |-> n]

\* save_state at the end of a run: a state without 'processed_files' is
\* written back without it.
SavedFile(acc, n) ==
    IF acc.nokey
    THEN [kind |-> "nokey", processed_files |-> <<>>, config |-> n]
    ELSE save_state(acc.pf, n)

NoCsv == [kind |-> "missing", rows |-> <<>>]

\* pd.read_csv infers the type of a column: a column that holds only digit
\* strings becomes integers, so "001" is written back as "1"; an empty field
\* is NaN (written back as an empty field, "" here), and digit strings next
\* to empty fields become floats.
IntText(text) ==
    CASE text \in {"001", "1"} -> "1"
      [] text \in {"002", "2"} -> "2"
      [] OTHER -> text

IsIntText(text) == text \in {"001", "1", "002", "2"}

FloatText(text) ==
    CASE text \in {"001", "1", "1.0"} -> "1.0"
      [] text \in {"002", "2", "2.0"} -> "2.0"
      [] OTHER -> text

IsFloatText(text) == IsIntText(text) \/ text \in {"1.0", "2.0", ""}

\* One cell of a column whose cells are values.
ReadCell(values, text) ==
    IF \A v \in values : v = "" THEN text
    ELSE IF \A v \in values : IsIntText(v) THEN IntText(text)
    ELSE IF \A v \in values : IsFloatText(v) THEN FloatText(text)
    ELSE text

read_csv(rows) ==
    LET set_names == { rows[i].set_name : i \in 1..Len(rows) }
        card_numbers == { rows[i].card_number : i \in 1..Len(rows) }
        variants == { rows[i].variant : i \in 1..Len(rows) }
    IN  [i \in 1..Len(rows) |->
            [rows[i] EXCEPT !.set_name = ReadCell(set_names, @),
                            !.card_number = ReadCell(card_numbers, @),
                            !.variant = ReadCell(variants, @)]]

\* drop_duplicates with keep='first': the existing row wins over the new one.
RECURSIVE drop_duplicates_keep_first_from(_, _)
drop_duplicates_keep_first_from(rows, i) ==
    IF i > Len(rows)
    THEN <<>>
    ELSE IF \E j \in 1..(i - 1) : rows[j].filepath = rows[i].filepath
         THEN drop_duplicates_keep_first_from(rows, i + 1)
         ELSE <<rows[i]>> \o drop_duplicates_keep_first_from(rows, i + 1)

drop_duplicates_keep_first(rows) == drop_duplicates_keep_first_from(rows, 1)

\* DataFrame.drop_duplicates(subset=['filepath'], keep='last')
RECURSIVE drop_duplicates_from(_, _)
drop_duplicates_from(rows, i) ==
    IF i > Len(rows)
    THEN <<>>
    ELSE IF \E j \in (i + 1)..Len(rows) : rows[j].filepath = rows[i].filepath
         THEN drop_duplicates_from(rows, i + 1)
         ELSE <<rows[i]>> \o drop_duplicates_from(rows, i + 1)

drop_duplicates(rows) == drop_duplicates_from(rows, 1)

\* The merge of update_csv_dataset: existing rows first, then the new ones.
Merge(existing_rows, new_rows) == drop_duplicates(existing_rows \o new_rows)

\* update_csv_dataset: merged with the existing file when there is one,
\* written as it is otherwise.
update_csv_dataset(file, aug_rows) ==
    IF file.kind = "ok"
    THEN [kind |-> "ok", rows |-> Merge(read_csv(file.rows), aug_rows)]
    ELSE [kind |-> "ok", rows |-> aug_rows]

-----------------------------------------------------------------------------
(* cleanup_orphaned_files *)

\* '_aug_' in aug_file.stem
HasAugMarker(stem) == \E i \in 2..(Len(stem) - 1) : stem[i] = "aug"

\* '_'.join(aug_file.stem.split('_')[:-2])
BaseStem(stem) == SubSeq(stem, 1, Len(stem) - 2)

\* The loop over original_files: an original with the recovered stem exists.
OriginalFound(path, original_files) ==
    \E orig_file \in original_files :
        PathStem(orig_file.name) = BaseStem(PathStem(path.name))

\* The files the deletion pass unlinks.
Orphans(out, original_files) ==
    { path \in DOMAIN out :
        /\ path.name.ext \in ImageExts
        /\ HasAugMarker(PathStem(path.name))
        /\ ~OriginalFound(path, original_files) }

\* The directories the second pass removes.  rglob yields a directory before
\* the directories below it, so a set directory is tested while its variant
\* directories still exist.
EmptyDirs(out, dirs) ==
    { d \in dirs :
        IF Len(d) = 1
        THEN ~\E e \in dirs : Len(e) = 2 /\ e[1] = d[1]
        ELSE ~\E path \in DOMAIN out : path.set = d[1] /\ path.variant = d[2] }

Restrict(f, S) == [x \in S |-> f[x]]

-----------------------------------------------------------------------------
(* History *)

NoHist ==
    [mode |-> "none", n |-> 0, fault |-> NoFault, listing |-> {},
     produced |-> {}, skipped |-> {}, failedSlots |-> {}, failedSrc |-> {},
     wroteOrig |-> {}, events |-> <<>>, newRows |-> <<>>, csvBefore |-> NoCsv,
     pfBefore |-> <<>>,
     stateBefore |-> "missing", removed |-> <<>>,
     prevOp |-> "init", prevMode |-> "none", prevN |-> 0, prevFault |-> "none",
     prevComplete |-> FALSE, edited |-> {}, changed |-> {}, cleaned |-> FALSE]

\* The sources as the last run saw them (as they were at the start, before
\* the first run), and whether a cleanup ran since.
NoSince == [snap |-> [s \in Sources |-> 1], cleaned |-> FALSE]

NoPending == [pf |-> <<>>, recs |-> <<>>, n |-> 0, before |-> NoStateFile]

NoParsed == [name |-> FileName(<<>>, ""), by_filename |-> NoCard, by_card_info |-> NoCard]

\* A run was complete when it met no failure: every slot of every listed
\* source was then Produced or Skipped.
Complete(h) == h.mode # "none" /\ h.fault.kind = "none" /\ h.listing # {}

\* The sources whose bytes differ from those the last run saw, and the
\* sources that appeared or disappeared since.
EditedSince == { s \in Sources : since.snap[s] > 0 /\ src[s] > 0 /\ since.snap[s] # src[s] }
ChangedSince == { s \in Sources : (since.snap[s] = 0) # (src[s] = 0) }

\* The history record of a run with outcome acc.
RunHist(mode, n, fault, acc) ==
    [mode |-> mode, n |-> n, fault |-> fault, listing |-> Listing,
     produced |-> acc.produced, skipped |-> acc.skipped,
     failedSlots |-> acc.failedSlots, failedSrc |-> acc.failedSrc,
     wroteOrig |-> acc.wroteOrig, events |-> acc.events, newRows |-> acc.recs,
     csvBefore |-> csv,
     pfBefore |-> load_state(stateFile), stateBefore |-> stateFile.kind, removed |-> <<>>,
     prevOp |-> lastOp, prevMode |-> hist.mode, prevN |-> hist.n,
     prevFault |-> hist.fault.kind, prevComplete |-> Complete(hist),
     edited |-> EditedSince, changed |-> ChangedSince, cleaned |-> since.cleaned]

-----------------------------------------------------------------------------
(* Steps *)

Modes == {"full", "incremental"}

\* A fresh working directory: every source present, nothing derived yet.
Fresh ==
    /\ src = [s \in Range(universe) |-> 1]
    /\ stateFile = NoStateFile
    /\ outFiles = <<>>
    /\ outDirs = {}
    /\ csv = NoCsv
    /\ lastOp = "init"
    /\ hist = NoHist
    /\ since = NoSince
    /\ ops = 0
    /\ pc = "idle"
    /\ pending = NoPending
    /\ logFile = FALSE
    /\ parsed = NoParsed

\* The default configuration, without albumentations.
Init ==
    /\ universe \in Scenarios
    /\ config = DefaultConfig(FALSE)
    /\ Fresh

\* create_augmented_dataset up to save_state, on the state load_state gave.
create_augmented_dataset(mode, n, fault) ==
    ProcessSources(StartRun(load_state(stateFile), LacksKey(stateFile)),
                   load_dataset, mode, n, fault, 1)

\* main with --mode full or incremental: the whole invocation.  An empty
\* listing raises ValueError before anything is written.
Run(mode, n, fault) ==
    /\ pc = "idle"
    /\ \E acc \in {create_augmented_dataset(mode, n, fault)} :
           /\ IF load_dataset = <<>>
              THEN UNCHANGED <<stateFile, outFiles, outDirs, csv>>
              ELSE /\ outFiles' = acc.out
                   /\ outDirs' = acc.dirs
                   /\ stateFile' = SavedFile(acc, n)
                   /\ csv' = IF acc.recs # <<>>
                             THEN update_csv_dataset(csv, acc.recs)
                             ELSE csv
           /\ hist' = RunHist(mode, n, fault, acc)
    /\ lastOp' = "run"
    /\ since' = [snap |-> src, cleaned |-> FALSE]
    /\ ops' = ops + 1
    /\ logFile' = TRUE
    /\ UNCHANGED <<universe, config, parsed, src, pc, pending>>

\* main with --mode cleanup.
cleanup_orphaned_files ==
    /\ pc = "idle"
    /\ \E gone \in {Orphans(outFiles, Listing)} :
           /\ outFiles' = Restrict(outFiles, DOMAIN outFiles \ gone)
           /\ outDirs' = outDirs \ EmptyDirs(Restrict(outFiles, DOMAIN outFiles \ gone), outDirs)
           /\ hist' = [hist EXCEPT !.removed = Restrict(outFiles, gone)]
    /\ lastOp' = "cleanup"
    /\ since' = [since EXCEPT !.cleaned = TRUE]
    /\ ops' = ops + 1
    /\ logFile' = TRUE
    /\ UNCHANGED <<universe, config, parsed, src, stateFile, csv, pc, pending>>

\* main with --mode stats: get_statistics reads the registry.
get_statistics ==
    /\ pc = "idle"
    /\ lastOp' = "stats"
    /\ ops' = ops + 1
    /\ logFile' = TRUE
    /\ UNCHANGED <<universe, config, parsed, src, stateFile, outFiles, outDirs, csv, hist, since,
                   pc, pending>>

\* The environment: a source file appears, is edited, or disappears.
AddSource(s, v) ==
    /\ pc = "idle"
    /\ src[s] = 0
    /\ src' = [src EXCEPT ![s] = v]
    /\ lastOp' = "add"
    /\ ops' = ops + 1
    /\ UNCHANGED <<universe, config, parsed, logFile, stateFile, outFiles, outDirs, csv, hist, since, pc, pending>>

EditSource(s, v) ==
    /\ pc = "idle"
    /\ src[s] > 0
    /\ src[s] # v
    /\ src' = [src EXCEPT ![s] = v]
    /\ lastOp' = "edit"
    /\ ops' = ops + 1
    /\ UNCHANGED <<universe, config, parsed, logFile, stateFile, outFiles, outDirs, csv, hist, since, pc, pending>>

RemoveSource(s) ==
    /\ pc = "idle"
    /\ src[s] > 0
    /\ src' = [src EXCEPT ![s] = 0]
    /\ lastOp' = "remove"
    /\ ops' = ops + 1
    /\ UNCHANGED <<universe, config, parsed, logFile, stateFile, outFiles, outDirs, csv, hist, since, pc, pending>>

\* Runs that meet no failure, cleanup, stats and the changing source directory.
Next ==
    \/ \E mode \in Modes, n \in 1..MaxNumAug : ops < MaxOps /\ Run(mode, n, NoFault)
    \/ ops < MaxOps /\ cleanup_orphaned_files
    \/ ops < MaxOps /\ get_statistics
    \/ \E s \in Sources, v \in 1..MaxVer : ops < MaxOps /\ AddSource(s, v)
    \/ \E s \in Sources, v \in 1..MaxVer : ops < MaxOps /\ EditSource(s, v)
    \/ \E s \in Sources : ops < MaxOps /\ RemoveSource(s)

Spec == Init /\ [][Next]_vars

\* Runs that may meet a failure, over sources that are edited.
NextFault ==
    \/ \E mode \in Modes, n \in 1..MaxNumAug : \E fault \in Faults(n) :
          ops < MaxFaultOps /\ Run(mode, n, fault)
    \/ \E s \in Sources, v \in 1..MaxVer : ops < MaxFaultOps /\ EditSource(s, v)

SpecFault == Init /\ [][NextFault]_vars

\* The environment: the state file or the registry is deleted or damaged.
DamageState(kind) ==
    /\ pc = "idle"
    /\ stateFile.kind # kind
    /\ stateFile' = [kind |-> kind, processed_files |-> <<>>, config |-> 0]
    /\ lastOp' = "damage"
    /\ ops' = ops + 1
    /\ UNCHANGED <<universe, config, parsed, logFile, src, outFiles, outDirs, csv, hist,
                   since, pc, pending>>

DamageCsv(kind) ==
    /\ pc = "idle"
    /\ csv.kind # kind
    /\ csv' = [kind |-> kind, rows |-> <<>>]
    /\ lastOp' = "damage"
    /\ ops' = ops + 1
    /\ UNCHANGED <<universe, config, parsed, logFile, src, stateFile, outFiles, outDirs,
                   hist, since, pc, pending>>

\* Runs over a state file and a registry that may be missing or damaged.
NextDegraded ==
    \/ \E mode \in Modes, n \in 1..MaxNumAug :
          ops < MaxDegradedOps /\ Run(mode, n, NoFault)
    \/ \E kind \in {"missing", "partial", "nokey"} :
          ops < MaxDegradedOps /\ DamageState(kind)
    \/ \E kind \in {"missing", "corrupt"} :
          ops < MaxDegradedOps /\ DamageCsv(kind)

SpecDegraded == Init /\ [][NextDegraded]_vars

\* A call of the two identity parsers on one file name: parse_filename, and
\* parse_card_info without row data.
ParseName(name) ==
    /\ pc = "idle"
    /\ parsed' = [name |-> name,
                  by_filename |-> parse_filename(name),
                  by_card_info |-> parse_card_info(name, NoCard, FALSE)]
    /\ lastOp' = "parse"
    /\ ops' = ops + 1
    /\ UNCHANGED <<universe, config, logFile, src, stateFile, outFiles, outDirs, csv,
                   hist, since, pc, pending>>

\* The file names given to the parsers: up to MaxSegs segments joined by "_",
\* then an image extension, nothing, or a bare dot.
Stems == UNION { [1..k -> Segments] : k \in 1..MaxSegs }

Names == { FileName(stem, ext) : stem \in Stems, ext \in {"webp", "", "."} }

NextParse == \E name \in Names : ops < MaxParseOps /\ ParseName(name)

SpecParse == Init /\ [][NextParse]_vars

\* Runs under any of the configurations, with any num_augmentations.
InitConfig ==
    /\ universe \in Scenarios
    /\ config \in Configs
    /\ Fresh

NextConfig ==
    \E mode \in Modes, n \in 1..MaxConfigNumAug :
        ops < MaxConfigOps /\ Run(mode, n, NoFault)

SpecConfig == InitConfig /\ [][NextConfig]_vars

-----------------------------------------------------------------------------
(* The invocation step by step, with an interrupt between the steps *)

\* create_augmented_dataset up to the call of save_state.
RunBody(mode, n) ==
    /\ pc = "idle"
    /\ load_dataset # <<>>
    /\ \E acc \in {create_augmented_dataset(mode, n, NoFault)} :
           /\ outFiles' = acc.out
           /\ outDirs' = acc.dirs
           /\ pending' = [pf |-> acc.pf, recs |-> acc.recs, n |-> n, before |-> stateFile]
           /\ hist' = RunHist(mode, n, NoFault, acc)
    /\ pc' = "save"
    /\ lastOp' = "run"
    /\ since' = [snap |-> src, cleaned |-> FALSE]
    /\ ops' = ops + 1
    /\ logFile' = TRUE
    /\ UNCHANGED <<universe, config, parsed, src, stateFile, csv>>

\* save_state: open(self.state_file, 'w') truncates the file in place.
SaveOpen ==
    /\ pc = "save"
    /\ stateFile' = [kind |-> "partial", processed_files |-> <<>>, config |-> 0]
    /\ pc' = "dump"
    /\ ops' = ops + 1
    /\ UNCHANGED <<universe, config, parsed, logFile, src, outFiles, outDirs, csv, lastOp, hist, since, pending>>

\* save_state: json.dump has written everything and the file is closed.
SaveDump ==
    /\ pc = "dump"
    /\ stateFile' = save_state(pending.pf, pending.n)
    /\ pc' = "csv"
    /\ ops' = ops + 1
    /\ UNCHANGED <<universe, config, parsed, logFile, src, outFiles, outDirs, csv, lastOp, hist, since, pending>>

\* main: update_csv_dataset when the run returned rows; the process ends.
SaveCsv ==
    /\ pc = "csv"
    /\ csv' = IF pending.recs # <<>> THEN update_csv_dataset(csv, pending.recs) ELSE csv
    /\ pc' = "idle"
    /\ pending' = NoPending
    /\ ops' = ops + 1
    /\ UNCHANGED <<universe, config, parsed, logFile, src, stateFile, outFiles, outDirs, lastOp, hist, since>>

\* KeyboardInterrupt (or the process is killed): the process ends where it is.
\* pending is kept as the record of what the process was saving.
Interrupt ==
    /\ pc # "idle"
    /\ pc' = "idle"
    /\ lastOp' = "interrupt"
    /\ ops' = ops + 1
    /\ UNCHANGED <<universe, config, parsed, logFile, src, stateFile, outFiles, outDirs, csv, hist, since, pending>>

NextCrash ==
    \/ \E mode \in Modes, n \in 1..MaxNumAug : ops < MaxCrashOps /\ RunBody(mode, n)
    \/ ops < MaxCrashOps /\ SaveOpen
    \/ ops < MaxCrashOps /\ SaveDump
    \/ ops < MaxCrashOps /\ SaveCsv
    \/ ops < MaxCrashOps /\ Interrupt

SpecCrash == Init /\ [][NextCrash]_vars

-----------------------------------------------------------------------------
(* Vocabulary of the properties *)

Slots(n) == 0..(n - 1)

\* The last step was a derivation run in the given mode that met no failure.
RanClean(mode) == lastOp = "run" /\ hist.mode = mode /\ hist.fault.kind = "none"

\* The slots the State Store listed as completed when the last run loaded it.
CompletedBefore(s, i) ==
    /\ s \in DOMAIN hist.pfBefore
    /\ AugKey(AugType(i), i) \in DOMAIN hist.pfBefore[s].augmentations

Paths(rows) == { rows[i].filepath : i \in 1..Len(rows) }

\* The registry as update_csv_dataset loaded it before the last run's merge.
ExistingRows == read_csv(hist.csvBefore.rows)

-----------------------------------------------------------------------------
(* C1..C10 *)

\* C1 (idempotence): when an incremental run directly follows an incremental
\* run with the same num_augmentations, neither meeting a failure and no
\* source being added, edited or removed in between, the second run Produces
\* no slot and leaves the registry as it was.
C1_Idempotence ==
    ( /\ RanClean("incremental")
      /\ hist.prevOp = "run" /\ hist.prevMode = "incremental"
      /\ hist.prevFault = "none" /\ hist.prevN = hist.n )
    => (hist.produced = {} /\ csv = hist.csvBefore)

\* C2 (change detection): when exactly one source's bytes changed after a run
\* that completed all slots (and nothing was added or removed), the next
\* incremental run with the same num_augmentations Produces every slot of
\* that source and no slot of any other source.
C2_ChangeDetection ==
    ( /\ RanClean("incremental")
      /\ hist.prevComplete /\ hist.prevN = hist.n
      /\ Cardinality(hist.edited) = 1 /\ hist.changed = {} )
    => /\ \A s \in hist.edited, i \in Slots(hist.n) : <<s, i>> \in hist.produced
       /\ \A x \in hist.produced : x[1] \in hist.edited

\* C3 (self-healing): after an incremental run that met no failure, the
\* derived file of every slot of every listed source exists.
C3_SelfHealing ==
    RanClean("incremental")
    => \A s \in hist.listing, i \in Slots(hist.n) : AugPathOf(s, i) \in DOMAIN outFiles

\* C4 (crash atomicity): after an interrupt of a process that had reached
\* save_state while a complete state file of an earlier run was on disk, the
\* state file holds that complete previous state or the complete updated state.
C4_CrashAtomic ==
    (lastOp = "interrupt" /\ pending.before.kind = "ok")
    => \/ stateFile = pending.before
       \/ stateFile = save_state(pending.pf, pending.n)

\* C5 (resume after partial failure): after a run that met a failure the
\* State Store on disk lists every slot that run Produced, and an incremental
\* run that directly follows it over the unchanged sources Produces exactly
\* the slots the State Store did not list as completed and Skips the others.
C5_Resume ==
    /\ (lastOp = "run" /\ hist.fault.kind # "none" /\ hist.listing # {})
       => \A x \in hist.produced :
             /\ x[1] \in DOMAIN stateFile.processed_files
             /\ AugKey(AugType(x[2]), x[2])
                    \in DOMAIN stateFile.processed_files[x[1]].augmentations
    /\ ( /\ RanClean("incremental")
         /\ hist.prevOp = "run" /\ hist.prevFault # "none" /\ hist.prevN = hist.n )
       => \A s \in hist.listing, i \in Slots(hist.n) :
             IF CompletedBefore(s, i)
             THEN <<s, i>> \in hist.skipped /\ <<s, i>> \notin hist.produced
             ELSE <<s, i>> \in hist.produced

\* C6 (registry uniqueness): the persisted registry holds at most one row per
\* filepath.
C6_RegistryUnique ==
    csv.kind = "ok"
    => \A i, j \in 1..Len(csv.rows) :
          csv.rows[i].filepath = csv.rows[j].filepath => i = j

C8_MergeIdempotent ==
    csv.kind = "ok"
    => Range(Merge(read_csv(csv.rows), read_csv(csv.rows))) = Range(read_csv(csv.rows))

\* C9 (no stale rows): every row of the persisted registry refers to a file
\* that exists in the output namespace.
C9_NoStaleRows ==
    csv.kind = "ok"
    => \A i \in 1..Len(csv.rows) : csv.rows[i].filepath \in DOMAIN outFiles

\* C10 (orphan correctness): after a cleanup, no suffix-marked file is left
\* whose recovered stem is the stem of a removed source and whose path is not
\* the derived path of a source still listed; and no file derived from a
\* source that is still listed was deleted.
C10_OrphanCorrect ==
    lastOp = "cleanup"
    => /\ \A s \in Sources, p \in DOMAIN outFiles :
             ( /\ src[s] = 0
               /\ HasAugMarker(p.name.stem)
               /\ BaseStem(p.name.stem) = s.name.stem
               /\ outFiles[p].from = s
               /\ outFiles[p].kind # "original" )
             => \E t \in Listing, i \in Slots(MaxNumAug) : p = AugPathOf(t, i)
       /\ \A p \in DOMAIN hist.removed :
             ~(hist.removed[p].kind # "original" /\ hist.removed[p].from \in Listing)

-----------------------------------------------------------------------------
(* C11..C20 *)

\* The output paths the engine computes for a source with n slots.
OutPaths(s, n) == {OrigPathOf(s)} \cup { AugPathOf(s, i) : i \in Slots(n) }

\* C11 (originals survive cleanup): cleanup_orphaned_files deletes no file
\* that the engine wrote as the unmodified copy of a source.
C11_OriginalKept ==
    lastOp = "cleanup"
    => \A p \in DOMAIN hist.removed : hist.removed[p].kind # "original"

\* C12 (no empty directory): after cleanup_orphaned_files every directory
\* under the output root holds a file or a directory.
C12_NoEmptyDirs ==
    lastOp = "cleanup"
    => \A d \in outDirs :
          IF Len(d) = 1
          THEN \E e \in outDirs : Len(e) = 2 /\ e[1] = d[1]
          ELSE \E path \in DOMAIN outFiles : path.set = d[1] /\ path.variant = d[2]

\* C13 (output path injectivity): in a run, the output paths of two listed
\* sources have no path in common, and the paths of one source (its copy and
\* its slots) are pairwise distinct.
C13_PathsInjective ==
    lastOp = "run"
    => /\ \A s, t \in hist.listing :
             s # t => OutPaths(s, hist.n) \cap OutPaths(t, hist.n) = {}
       /\ \A s \in hist.listing : Cardinality(OutPaths(s, hist.n)) = hist.n + 1

\* C14 (slot kinds): the kind stored for slot index i in the State Store and
\* written to the registry is catalog[i mod len(catalog)], whatever
\* num_augmentations the run had; an incremental run that directly follows a
\* run therefore finds and Skips every slot index both runs configure.
C14_SlotKind ==
    /\ \A s \in DOMAIN stateFile.processed_files :
          \A k \in DOMAIN stateFile.processed_files[s].augmentations :
             k[1] = config.augmentation_types[(k[2] % Len(config.augmentation_types)) + 1]
    /\ lastOp = "run"
       => \A r \in Range(hist.newRows) :
             r.augmentation_type # "original"
             => \E s \in hist.listing, i \in Slots(hist.n) :
                   /\ r.filepath = AugPathOf(s, i)
                   /\ r.original_filename = s.name
                   /\ r.augmentation_type
                        = config.augmentation_types[(i % Len(config.augmentation_types)) + 1]
    /\ (RanClean("incremental") /\ hist.prevOp = "run")
       => \A s \in hist.listing, i \in Slots(hist.n) :
             i < hist.prevN => <<s, i>> \in hist.skipped

\* A run Produced a slot whose index lies beyond the catalog, directly after
\* a run with another num_augmentations.
C14_Witness ==
    /\ lastOp = "run" /\ hist.prevOp = "run" /\ hist.prevN # hist.n
    /\ \E x \in hist.produced : x[2] >= Len(config.augmentation_types)

\* The sources the last run gave up on: unreadable image, or an exception
\* while the copy or a slot was written.
FailedSources == hist.failedSrc \cup { x[1] : x \in hist.failedSlots }

\* C15 (batch failure isolation): when a source fails in a run, every slot of
\* every other listed source is Produced or Skipped in that run, the files of
\* the Produced slots exist, the State Store is saved with them, and the rows
\* of the run are in the registry.
C15_BatchIsolation ==
    (lastOp = "run" /\ FailedSources # {})
    => /\ \A t \in hist.listing \ FailedSources, i \in Slots(hist.n) :
             <<t, i>> \in hist.produced \cup hist.skipped
       /\ \A x \in hist.produced :
             /\ AugPathOf(x[1], x[2]) \in DOMAIN outFiles
             /\ x[1] \in DOMAIN stateFile.processed_files
             /\ AugKey(AugType(x[2]), x[2])
                    \in DOMAIN stateFile.processed_files[x[1]].augmentations
       /\ stateFile.kind = "ok" /\ stateFile.config = hist.n
       /\ Paths(hist.newRows) \subseteq Paths(csv.rows)

\* The first source of the listing failed and a slot of the second one was
\* Produced in the same run.
C15_Witness ==
    /\ lastOp = "run"
    /\ universe[1] \in FailedSources
    /\ \E i \in Slots(hist.n) : <<universe[2], i>> \in hist.produced

\* C16 (unregistered kind): no State Store entry, registry row or derived
\* file exists for a transform kind that is not registered.
C16_NoUnregisteredKind ==
    /\ \A s \in DOMAIN stateFile.processed_files :
          \A k \in DOMAIN stateFile.processed_files[s].augmentations : k[1] \in augmentations
    /\ \A r \in Range(csv.rows) : r.augmentation_type \in augmentations \cup {"original"}
    /\ \A p \in DOMAIN outFiles : outFiles[p].kind \in augmentations \cup {"original"}

\* C17 (degraded load): a run that found the state file or the registry
\* missing, unreadable or without 'processed_files' loses no source; with
\* such a state file it Produces every slot of every listed source and saves
\* a State Store that lists them, and with such a registry it writes a
\* registry that holds exactly the rows of the run.
C17_DegradedLoad ==
    ( /\ RanClean("full") \/ RanClean("incremental")
      /\ hist.listing # {}
      /\ hist.stateBefore # "ok" \/ hist.csvBefore.kind # "ok" )
    => /\ FailedSources = {}
       /\ hist.stateBefore # "ok"
          => /\ \A s \in hist.listing, i \in Slots(hist.n) : <<s, i>> \in hist.produced
             /\ stateFile.kind = "ok"
             /\ \A x \in hist.produced :
                   /\ x[1] \in DOMAIN stateFile.processed_files
                   /\ AugKey(AugType(x[2]), x[2])
                          \in DOMAIN stateFile.processed_files[x[1]].augmentations
       /\ (hist.csvBefore.kind # "ok" /\ hist.newRows # <<>>)
          => csv = [kind |-> "ok", rows |-> hist.newRows]

\* C18 (frame of stats and cleanup): a stats invocation leaves the State
\* Store, the registry and the files and directories under the output root
\* as they were; a cleanup invocation leaves the State Store as it was and
\* writes no file.
C18_Frame ==
    [][ /\ lastOp' = "stats"
           => UNCHANGED <<stateFile, csv, outFiles, outDirs, logFile>>
        /\ lastOp' = "cleanup"
           => /\ stateFile' = stateFile
              /\ \A p \in DOMAIN outFiles' :
                    p \in DOMAIN outFiles /\ outFiles'[p] = outFiles[p]
      ]_vars

\* C19 (identity parsing): on every file name the two parsers return the
\* same result, and it is the identity read off the "_"-separated segments of
\* the name without its extension: none below two segments, else segment 1,
\* segment 2 and segment 3 or "normal", a trailing ("aug", ordinal) pair of a
\* name of four or more segments being dropped first.
C19_ParsersAgree ==
    lastOp = "parse"
    => LET segs == parsed.name.stem
           parts == IF Len(segs) >= 4 /\ segs[Len(segs) - 1] = "aug"
                    THEN SubSeq(segs, 1, Len(segs) - 2)
                    ELSE segs
       IN  /\ parsed.by_filename = parsed.by_card_info
           /\ parsed.by_filename.ok = (Len(segs) >= 2)
           /\ parsed.by_filename.ok
              => /\ parsed.by_filename.set_name = parts[1]
                 /\ parsed.by_filename.card_number = parts[2]
                 /\ parsed.by_filename.variant
                      = IF Len(parts) >= 3 THEN parts[3] ELSE "normal"

\* C20 (no partial identity): every source a run wrote a copy or a derived
\* file for has a non-empty set_name and a non-empty card_number.
C20_NoPartialIdentity ==
    lastOp = "run"
    => \A s \in hist.wroteOrig \cup { x[1] : x \in hist.produced } :
          CardInfoOf(s).set_name # "" /\ CardInfoOf(s).card_number # ""

-----------------------------------------------------------------------------
(* C21..C30 *)

\* The first invocation on a fresh working directory was a full run with
\* num_augmentations = 3 and a catalog of 5 kinds over the two sources
\* s1_001_normal.webp and s1_002_pf.webp.
C21_Witness ==
    /\ lastOp = "run" /\ hist.prevOp = "init"
    /\ hist.mode = "full" /\ hist.n = 3
    /\ Len(config.augmentation_types) = 5
    /\ universe = << SrcPath("", <<"s1", "001", "normal">>, "webp"),
                     SrcPath("", <<"s1", "002", "pf">>, "webp") >>

\* C21 (end to end): after that run and its registry merge the registry
\* holds 8 rows with 8 distinct filepaths, 2 of them rows of unmodified
\* copies and 6 rows of derived files, and the saved State Store holds
\* exactly the 2 sources, each with exactly 3 completed augmentation keys.
C21_EndToEnd ==
    C21_Witness
    => /\ csv.kind = "ok"
       /\ Len(csv.rows) = 8
       /\ Cardinality(Paths(csv.rows)) = 8
       /\ Cardinality({ i \in 1..Len(csv.rows) :
                            csv.rows[i].augmentation_type = "original" }) = 2
       /\ Cardinality({ i \in 1..Len(csv.rows) :
                            csv.rows[i].augmentation_type # "original" }) = 6
       /\ stateFile.kind = "ok"
       /\ DOMAIN stateFile.processed_files = Sources
       /\ \A s \in Sources :
             Cardinality(DOMAIN stateFile.processed_files[s].augmentations) = 3

\* C22 (fingerprint replacement): after a run, the State Store entry of
\* every source of which the run Produced a slot stores the fingerprint of
\* the source's current bytes.
C22_FingerprintReplaced ==
    lastOp = "run"
    => \A x \in hist.produced :
          /\ stateFile.kind = "ok"
          /\ x[1] \in DOMAIN stateFile.processed_files
          /\ stateFile.processed_files[x[1]].hash = src[x[1]]

\* The run reached slot i of source s: it Skipped it, saved its file or
\* failed in it.
Evaluated(s, i) ==
    \E k \in 1..Len(hist.events) :
        /\ hist.events[k].who = s
        /\ hist.events[k].idx = i
        /\ hist.events[k].kind \in {"skip", "write", "fail"}

\* C23 (skip rule): a slot the run reached was Skipped exactly when the mode
\* was incremental, the State Store the run loaded held an entry for the
\* source, the fingerprint stored in it was the one get_file_hash gave for
\* the source in this run (the empty digest when the file could not be
\* read), and the entry listed the slot's augmentation key; a full run Skips
\* nothing.
C23_SkipRule ==
    lastOp = "run"
    => /\ \A s \in hist.listing, i \in Slots(hist.n) :
             Evaluated(s, i)
             => ( <<s, i>> \in hist.skipped
                  <=> /\ hist.mode = "incremental"
                      /\ s \in DOMAIN hist.pfBefore
                      /\ hist.pfBefore[s].hash
                           = get_file_hash(s, Hits(hist.fault, "hash", s, 0))
                      /\ AugKey(AugType(i), i) \in DOMAIN hist.pfBefore[s].augmentations )
       /\ hist.mode = "full" => hist.skipped = {}

\* An incremental run Skipped a slot and Produced another one that the State
\* Store listed as completed, under a fingerprint that no longer matched.
C23_Witness ==
    /\ lastOp = "run" /\ hist.mode = "incremental"
    /\ hist.skipped # {}
    /\ \E x \in hist.produced :
          /\ CompletedBefore(x[1], x[2])
          /\ hist.pfBefore[x[1]].hash # src[x[1]]

\* C24 (slot failure isolation): when slot i of a source failed in a run,
\* every later slot of that source was Produced or Skipped in the same run.
C24_SlotIsolation ==
    lastOp = "run"
    => \A x \in hist.failedSlots, j \in Slots(hist.n) :
          j > x[2] => <<x[1], j>> \in hist.produced \cup hist.skipped

\* C25 (unverifiable fingerprint): an incremental run in which the file of a
\* source could not be read for hashing Skipped no slot of that source.
C25_UnverifiableFingerprint ==
    (lastOp = "run" /\ hist.mode = "incremental" /\ hist.fault.kind = "hash")
    => \A i \in Slots(hist.n) : <<hist.fault.who, i>> \notin hist.skipped

\* C26 (record accumulation): the records a run returns for the registry
\* pass hold a record for every slot the run Produced and for every slot it
\* Skipped, with the slot's output path, source name and kind.
C26_RecordAccumulation ==
    lastOp = "run"
    => \A x \in hist.produced \cup hist.skipped :
          \E r \in Range(hist.newRows) :
             /\ r.filepath = AugPathOf(x[1], x[2])
             /\ r.original_filename = x[1].name
             /\ r.augmentation_type = AugType(x[2])

\* C27 (no silent staleness): after an incremental run that met no failure,
\* every file of the output namespace that was made from a listed source
\* whose bytes had been edited since the run before, its unmodified copy
\* included, was made from the source's current bytes.
C27_NoStaleness ==
    RanClean("incremental")
    => \A s \in hist.edited \cap hist.listing, p \in DOMAIN outFiles :
          outFiles[p].from = s => outFiles[p].ver = src[s]

\* C28 (ordering within a source): in the sequence of steps of a run, every
\* step of a slot of a source comes after the step in which the unmodified
\* copy of that source was saved to, or found at, its output path; the slots
\* of a source are taken in increasing order; and the steps of one source
\* are not interleaved with those of another.
C28_SourceOrder ==
    lastOp = "run"
    => /\ \A k \in 1..Len(hist.events) :
             hist.events[k].idx >= 0
             => \E j \in 1..(k - 1) :
                   /\ hist.events[j].who = hist.events[k].who
                   /\ hist.events[j].kind \in {"copy", "present"}
                   /\ hist.events[j].path = OrigPathOf(hist.events[k].who)
       /\ \A j, k \in 1..Len(hist.events) :
             (j < k /\ hist.events[j].who = hist.events[k].who)
             => /\ hist.events[j].idx <= hist.events[k].idx
                /\ \A l \in j..k : hist.events[l].who = hist.events[j].who

\* A run took two slots of each of two sources, the copy of one of them
\* being found in place.
C28_Witness ==
    /\ lastOp = "run" /\ hist.n = 2
    /\ \E k \in 1..Len(hist.events) : hist.events[k].kind = "present"
    /\ \A s \in Sources : Evaluated(s, 0) /\ Evaluated(s, 1)

\* C29 (write before mark): in a run, every marking of a slot directly
\* follows the saving of that slot's file to the slot's computed output
\* path, which is the path stored under the key, and the file is there after
\* the run; every key the saved State Store holds beyond those it was loaded
\* with was marked in the run with the stored path; a slot that failed was
\* not marked.
C29_WriteBeforeMark ==
    lastOp = "run"
    => /\ \A k \in 1..Len(hist.events) :
             hist.events[k].kind = "mark"
             => /\ k > 1
                /\ hist.events[k - 1]
                     = [hist.events[k] EXCEPT !.kind = "write"]
                /\ hist.events[k].path = AugPathOf(hist.events[k].who, hist.events[k].idx)
                /\ hist.events[k].path \in DOMAIN outFiles
                /\ <<hist.events[k].who, hist.events[k].idx>> \notin hist.failedSlots
       /\ \A s \in DOMAIN stateFile.processed_files :
             \A key \in DOMAIN stateFile.processed_files[s].augmentations :
                \/ /\ s \in DOMAIN hist.pfBefore
                   /\ key \in DOMAIN hist.pfBefore[s].augmentations
                   /\ stateFile.processed_files[s].augmentations[key]
                        = hist.pfBefore[s].augmentations[key]
                \/ \E k \in 1..Len(hist.events) :
                      /\ hist.events[k].kind = "mark"
                      /\ hist.events[k].who = s
                      /\ AugKey(AugType(hist.events[k].idx), hist.events[k].idx) = key
                      /\ hist.events[k].path
                           = stateFile.processed_files[s].augmentations[key]

\* A run marked a slot of a source and failed in the next slot of it.
C29_Witness ==
    /\ lastOp = "run"
    /\ \E x \in hist.produced : <<x[1], x[2] + 1>> \in hist.failedSlots

\* C30 (the State Store only grows): no step removes a source entry from
\* processed_files or an augmentation key from an entry.
C30_StateGrows ==
    [][ \A s \in DOMAIN stateFile.processed_files :
           /\ s \in DOMAIN stateFile'.processed_files
           /\ DOMAIN stateFile.processed_files[s].augmentations
                 \subseteq DOMAIN stateFile'.processed_files[s].augmentations
      ]_vars

\* After a run, the State Store holds the entry of a source that was removed
\* and a key of a slot beyond the run's num_augmentations.
C30_Witness ==
    /\ lastOp = "run" /\ hist.listing # {}
    /\ \E s \in DOMAIN stateFile.processed_files : src[s] = 0
    /\ \E s \in DOMAIN stateFile.processed_files :
          \E key \in DOMAIN stateFile.processed_files[s].augmentations :
             key[2] >= hist.n

====
